---- MODULE Spec2Model ----
(***************************************************************************)
(* The chat client's streaming reducer (ChatInterface.tsx) and the state   *)
(* it folds into: the message list, the conversation history, the busy     *)
(* flags, and the requests the client issues.                               *)
(*                                                                         *)
(* Text is a sequence of characters, a response body a sequence of bytes.  *)
(* An ASCII byte and its character carry the same one-letter name; the     *)
(* two-byte character U+00E9 is the character "E9", encoded as the bytes   *)
(* "C3" "A9"; "FFFD" is the replacement character.                         *)
(***************************************************************************)
EXTENDS Integers, Sequences, FiniteSets, TLC

\* ------------------------------------------------------------------ bounds
MaxClock == 1
MaxDepth == 1
MaxSends == 1
MaxAdds == 1

\* ------------------------------------------------------- sequence helpers
IsPrefix(s, t) == Len(s) <= Len(t) /\ SubSeq(t, 1, Len(s)) = s

\* --------------------------------------------------------------- the wire
NL == "\n"
DataPrefix == <<"d", "a", "t", "a", ":", " ">>
DoneSentinel == <<"[", "D", "O", "N", "E", "]">>

\* UTF-8: one two-byte character is enough to cut a character in two.
LeadBytes == {"C3"}
ContinuationBytes == {"A9"}
TwoByteChar(b1, b2) == IF b1 = "C3" /\ b2 = "A9" THEN "E9" ELSE "FFFD"

RECURSIVE UTF8Encode(_)
UTF8Encode(text) ==
  IF text = <<>> THEN <<>>
  ELSE (IF Head(text) = "E9" THEN <<"C3", "A9">> ELSE <<Head(text)>>)
       \o UTF8Encode(Tail(text))

\* TextDecoder.decode(value, {stream: true}): the bytes kept back by the
\* previous call come first; a lead byte at the very end is kept back for the
\* next call; a lead byte without its continuation and a continuation byte
\* without its lead decode to U+FFFD.
Skip == "skip"
IsContinuationOf(bytes, k) ==
  k > 1 /\ bytes[k] \in ContinuationBytes /\ bytes[k - 1] \in LeadBytes

DecodeAt(bytes, k) ==
  IF IsContinuationOf(bytes, k) THEN Skip
  ELSE IF bytes[k] \in LeadBytes
    THEN IF k = Len(bytes) THEN Skip
         ELSE IF bytes[k + 1] \in ContinuationBytes
           THEN TwoByteChar(bytes[k], bytes[k + 1])
           ELSE "FFFD"
  ELSE IF bytes[k] \in ContinuationBytes THEN "FFFD"
  ELSE bytes[k]

decode(kept, input) ==
  LET bytes == kept \o input
      n == Len(bytes)
  IN [text |-> SelectSeq([k \in 1..n |-> DecodeAt(bytes, k)], LAMBDA ch : ch # Skip),
      pending |-> IF n > 0 /\ bytes[n] \in LeadBytes THEN <<bytes[n]>> ELSE <<>>]

\* chunk.split('\n'): n separators give n + 1 pieces, the last possibly empty.
split(text) ==
  LET n == Len(text)
      at == SelectSeq([k \in 1..n |-> k], LAMBDA k : text[k] = NL)
  IN [p \in 1..(Len(at) + 1) |->
        SubSeq(text,
               IF p = 1 THEN 1 ELSE at[p - 1] + 1,
               IF p = Len(at) + 1 THEN n ELSE at[p] - 1)]

startsWith(line, prefix) == IsPrefix(prefix, line)

\* String.prototype.trim: the text without its leading and trailing white space.
WhiteSpace == {" ", NL}
trim(text) ==
  LET at == SelectSeq([k \in 1..Len(text) |-> k], LAMBDA k : text[k] \notin WhiteSpace)
  IN IF at = <<>> THEN <<>> ELSE SubSeq(text, at[1], at[Len(at)])
slice(line, n) == SubSeq(line, n + 1, Len(line))

\* ------------------------------------------------------------ JSON payloads
\* The payloads the backend sends are drawn from a compact language of JSON
\* texts: "{" kind body "}".  kind "t" is {type: "text", content: body};
\* kind "f" is {type: "function_call", function_name, function_args,
\* function_result}, the result written as one tag; kind "s" is an object of
\* another type.  Kind "r" is {type: "tool_execution_result", result}, the
\* result written as a success flag and a payload tag; kind "a" is
\* {type: "ai_analysis", content: body}; kind "e" is {type: "error", error,
\* tool_name, server_id}, the error written as one character and the names
\* those of the one tool and the one server.  Every other text is a syntax error,
\* in particular every proper prefix and every proper suffix of a valid text.
FunctionNames == {"g", "h"}
ArgValues == {"x"}
ResultTags == {"n", "r", "a", "z", "v"}
SuccessFlags == {"1", "0"}
PayloadTags == {"l", "o", "_"}

\* function_result as the fields the reducer reads.
ResultOf(tag) ==
  [type |-> IF tag = "r" THEN "mcp_recommendations"
            ELSE IF tag = "v" THEN "available_tools" ELSE "result",
   requires_user_action |-> (tag = "a"),
   is_final |-> (tag = "z")]

\* parsed.result of a tool_execution_result frame: the payload is an array
\* ("l"), another truthy value ("o") or absent ("_").
ToolResultOf(flag, payload) ==
  [success |-> (flag = "1"), message |-> "m", execution_time |-> "7", result |-> payload]

SyntaxError == [ok |-> FALSE]

JSONparse(data) ==
  LET n == Len(data) IN
  IF n < 3 \/ data[1] # "{" \/ data[n] # "}" THEN SyntaxError
  ELSE IF data[2] = "t" /\ \A i \in 3..(n - 1) : data[i] \notin {"{", "}"}
    THEN [ok |-> TRUE, type |-> "text", content |-> SubSeq(data, 3, n - 1)]
  ELSE IF data[2] = "f" /\ n = 6 /\ data[3] \in FunctionNames
          /\ data[4] \in ArgValues /\ data[5] \in ResultTags
    THEN [ok |-> TRUE, type |-> "function_call", function_name |-> data[3],
          function_args |-> data[4], function_result |-> ResultOf(data[5])]
  ELSE IF data[2] = "s" /\ n = 3
    THEN [ok |-> TRUE, type |-> "status"]
  ELSE IF data[2] = "r" /\ n = 5 /\ data[3] \in SuccessFlags /\ data[4] \in PayloadTags
    THEN [ok |-> TRUE, type |-> "tool_execution_result",
          result |-> ToolResultOf(data[3], data[4])]
  ELSE IF data[2] = "a" /\ \A i \in 3..(n - 1) : data[i] \notin {"{", "}"}
    THEN [ok |-> TRUE, type |-> "ai_analysis", content |-> SubSeq(data, 3, n - 1)]
  ELSE IF data[2] = "e" /\ n = 4 /\ data[3] \notin {"{", "}"}
    THEN [ok |-> TRUE, type |-> "error", error |-> <<data[3]>>,
          tool_name |-> "u", server_id |-> "srv"]
  ELSE SyntaxError

\* The frames a backend writes, and the event line of each frame, as text
\* without the terminator.
Text(content) == [kind |-> "text", content |-> content]
Call(name, tag) == [kind |-> "function_call", name |-> name, tag |-> tag]
Status == [kind |-> "status"]
Done == [kind |-> "done"]
Bad == [kind |-> "bad"]
Comment == [kind |-> "comment"]
ToolResult(flag, payload) == [kind |-> "tool_execution_result", flag |-> flag, payload |-> payload]
Analysis(content) == [kind |-> "ai_analysis", content |-> content]
ErrorFrame(error) == [kind |-> "error", error |-> error]

EventLine(frame) ==
  CASE frame.kind = "text" -> DataPrefix \o <<"{", "t">> \o frame.content \o <<"}">>
    [] frame.kind = "function_call" ->
         DataPrefix \o <<"{", "f", frame.name, "x", frame.tag, "}">>
    [] frame.kind = "status" -> DataPrefix \o <<"{", "s", "}">>
    [] frame.kind = "done" -> DataPrefix \o DoneSentinel
    [] frame.kind = "bad" -> DataPrefix \o <<"{", "t", "A">>
    [] frame.kind = "comment" -> <<":", "k">>
    [] frame.kind = "tool_execution_result" ->
         DataPrefix \o <<"{", "r", frame.flag, frame.payload, "}">>
    [] frame.kind = "ai_analysis" -> DataPrefix \o <<"{", "a">> \o frame.content \o <<"}">>
    [] frame.kind = "error" -> DataPrefix \o <<"{", "e", frame.error, "}">>

RECURSIVE Body(_)
Body(frames) ==
  IF frames = <<>> THEN <<>>
  ELSE UTF8Encode(EventLine(Head(frames))) \o <<NL>> \o Body(Tail(frames))

\* ------------------------------------------------------------------ state
VARIABLES
  messages,               \* useState<Message[]>
  conversationHistory,    \* useState<any[]>
  isLoading,              \* useState(false)
  isProcessingFunctions,  \* useState(false)
  showCredentialModal,    \* useState(false)
  credentialRequirements, \* useState<any>(null)
  clock,                  \* Date.now()
  chains,                 \* the running and finished handler invocations
  streams,                \* the processStreamingResponse invocations
  requests,               \* every fetch the client has issued, in order
  sessionId,              \* useState(`session-${Date.now()}`)
  localStorage,           \* localStorage['mcp-chat-session-id']
  mounted,                \* the effects of the first render have run
  tools,                  \* the handleExecuteTool invocations
  credentials,            \* McpCredentialModal: useState<Record<string, string>>({})
  isSubmitting,           \* McpCredentialModal: useState(false)
  errors,                 \* McpCredentialModal: useState<Record<string, string>>({})
  submitted,              \* the calls of onCredentialsSubmitted, in order
  executor                \* McpToolExecutor: its useState values and its executeTool call

vars == <<messages, conversationHistory, isLoading, isProcessingFunctions,
          showCredentialModal, credentialRequirements, clock, chains, streams,
          requests, sessionId, localStorage, mounted, tools, credentials,
          isSubmitting, errors, submitted, executor>>

Undefined == <<>>
Null == "null"
Inputs == {<<"q">>, <<" ">>}
Servers == {"srv"}

\* `msg-${Date.now()}` and its suffixed forms.
MsgId(suffix) == <<"msg", clock, suffix>>

Message(id, content, sender, functionCalls) ==
  [id |-> id, content |-> content, sender |-> sender, functionCalls |-> functionCalls]

\* setMessages(prev => prev.map(msg => msg.id === id ? {...msg, content} : msg))
MapContent(msgs, id, content) ==
  [k \in 1..Len(msgs) |->
     IF msgs[k].id = id THEN [msgs[k] EXCEPT !.content = content] ELSE msgs[k]]

\* setMessages(prev => prev.map(msg => msg.id === id ? {...msg, functionCalls} : msg))
MapFunctionCalls(msgs, id, functionCalls) ==
  [k \in 1..Len(msgs) |->
     IF msgs[k].id = id THEN [msgs[k] EXCEPT !.functionCalls = functionCalls] ELSE msgs[k]]

\* ------------------------------------------------------------ the reducer
\* catch (e) { } around JSON.parse and the dispatch: the line is dropped.
OnParseErrorThrows(acc) == [acc EXCEPT !.done = TRUE]
OnParseError(acc) == acc

FoldLineUnknownEnds(acc, line) ==
  IF ~startsWith(line, DataPrefix) THEN acc
  ELSE LET data == slice(line, 6) IN
    IF data = DoneSentinel THEN [acc EXCEPT !.done = TRUE]
    ELSE LET parsed == JSONparse(data) IN
      IF ~parsed.ok THEN OnParseError(acc)
      ELSE IF parsed.type = "text" THEN
        LET content == acc.assistantMessage.content \o parsed.content IN
        [acc EXCEPT !.textContent = acc.textContent \o parsed.content,
                   !.assistantMessage.content = content,
                   !.messages = MapContent(acc.messages, acc.assistantMessage.id, content)]
      ELSE IF parsed.type = "function_call" THEN
        LET functionCall == [type |-> "function_call",
                             function_name |-> parsed.function_name,
                             function_args |-> parsed.function_args,
                             function_result |-> parsed.function_result]
            functionCalls == Append(acc.assistantMessage.functionCalls, functionCall)
        IN [acc EXCEPT !.currentFunctionCalls = Append(acc.currentFunctionCalls, functionCall),
                      !.assistantMessage.functionCalls = functionCalls,
                      !.messages = MapFunctionCalls(acc.messages, acc.assistantMessage.id, functionCalls)]
      ELSE [acc EXCEPT !.done = TRUE]

\* One pass of the body of `for (const line of lines)`.  acc holds the locals
\* of processStreamingResponse and the message list; acc.done is set when the
\* line is the sentinel and the function is on its way out.
FoldLine(acc, line) ==
  IF ~startsWith(line, DataPrefix) THEN acc
  ELSE LET data == slice(line, 6) IN
    IF data = DoneSentinel THEN [acc EXCEPT !.done = TRUE]
    ELSE LET parsed == JSONparse(data) IN
      IF ~parsed.ok THEN OnParseError(acc)
      ELSE IF parsed.type = "text" THEN
        LET content == acc.assistantMessage.content \o parsed.content IN
        [acc EXCEPT !.textContent = acc.textContent \o parsed.content,
                   !.assistantMessage.content = content,
                   !.messages = MapContent(acc.messages, acc.assistantMessage.id, content)]
      ELSE IF parsed.type = "function_call" THEN
        LET functionCall == [type |-> "function_call",
                             function_name |-> parsed.function_name,
                             function_args |-> parsed.function_args,
                             function_result |-> parsed.function_result]
            functionCalls == Append(acc.assistantMessage.functionCalls, functionCall)
        IN [acc EXCEPT !.currentFunctionCalls = Append(acc.currentFunctionCalls, functionCall),
                      !.assistantMessage.functionCalls = functionCalls,
                      !.messages = MapFunctionCalls(acc.messages, acc.assistantMessage.id, functionCalls)]
      ELSE acc

RECURSIVE FoldLinesPastSentinel(_, _)
FoldLinesPastSentinel(acc, rest) ==
  IF rest = <<>> THEN acc
  ELSE FoldLinesPastSentinel(FoldLine(acc, Head(rest)), Tail(rest))

\* for (const line of lines) { ... }: the sentinel branch returns from inside
\* the loop, so the lines after the sentinel are not looked at.
RECURSIVE FoldLines(_, _)
FoldLines(acc, rest) ==
  IF rest = <<>> \/ acc.done THEN acc
  ELSE FoldLines(FoldLine(acc, Head(rest)), Tail(rest))

ShouldProcessEvery(currentFunctionCalls) ==
  \A k \in 1..Len(currentFunctionCalls) :
    LET fc == currentFunctionCalls[k] IN
      /\ fc.function_result.type # "mcp_recommendations"
      /\ fc.function_result.requires_user_action # TRUE
      /\ fc.function_result.is_final # TRUE

ShouldProcessRecommendations(currentFunctionCalls) ==
  \E k \in 1..Len(currentFunctionCalls) :
    LET fc == currentFunctionCalls[k] IN
      /\ fc.function_result.requires_user_action # TRUE
      /\ fc.function_result.is_final # TRUE

\* currentFunctionCalls.some(fc => ...) of the sentinel branch.
shouldProcessFunctionResults(currentFunctionCalls) ==
  \E k \in 1..Len(currentFunctionCalls) :
    LET fc == currentFunctionCalls[k] IN
      /\ fc.function_result.type # "mcp_recommendations"
      /\ fc.function_result.requires_user_action # TRUE
      /\ fc.function_result.is_final # TRUE

\* A Record<string, string> with no entry.
NoEntries == [name \in {} |-> <<>>]

\* ------------------------------------------------------------------- Init
\* `session-${Date.now()}`, and an identifier a previous visit has stored.
SessionAt(now) == <<"session", now>>
StoredSession == SessionAt(-1)

\* The browser's storage as a map from keys to values; getItem of a key that
\* is not stored is null, and setItem adds or replaces the key.
SessionKey == "mcp-chat-session-id"
NoItems == [key \in {} |-> Null]
HasItem(storage, key) == key \in DOMAIN storage
setItem(storage, key, value) ==
  [k \in DOMAIN storage \cup {key} |-> IF k = key THEN value ELSE storage[k]]

\* McpToolExecutor after its first render.  null is written as a record, so
\* that it compares with the result objects.
NullResult == [null |-> TRUE]
ExecutorMounted ==
  [loaded |-> FALSE, selectedServer |-> "", selectedTool |-> "",
   isExecuting |-> FALSE, executionResult |-> NullResult, calls |-> 0,
   call |-> [status |-> "none"]]

Init ==
  /\ messages = <<>>
  /\ conversationHistory = <<>>
  /\ isLoading = FALSE
  /\ isProcessingFunctions = FALSE
  /\ showCredentialModal = FALSE
  /\ credentialRequirements = Null
  /\ clock = 0
  /\ chains = <<>>
  /\ streams = <<>>
  /\ requests = <<>>
  /\ sessionId = SessionAt(0)
  /\ localStorage \in {NoItems, setItem(NoItems, SessionKey, StoredSession)}
  /\ mounted = FALSE
  /\ tools = <<>>
  /\ credentials = NoEntries
  /\ isSubmitting = FALSE
  /\ errors = NoEntries
  /\ submitted = <<>>
  /\ executor = ExecutorMounted

\* Date.now() advances between two events.
TickTimesOut ==
  /\ clock < MaxClock
  /\ clock' = clock + 1
  /\ isLoading' = FALSE
  /\ UNCHANGED <<messages, conversationHistory, isProcessingFunctions,
                 showCredentialModal, credentialRequirements, chains, streams, requests>>

Tick ==
  /\ clock < MaxClock
  /\ clock' = clock + 1
  /\ UNCHANGED <<messages, conversationHistory, isLoading, isProcessingFunctions,
                 showCredentialModal, credentialRequirements, chains, streams, requests>>

Request(endpoint, c, from, function_results, conversation_history) ==
  [endpoint |-> endpoint, session |-> sessionId, chain |-> c, from |-> from,
   function_results |-> function_results,
   conversation_history |-> conversation_history]

\* The effects of the first render, in order.  The first reads the stored
\* identifier, or creates and stores one; the second is loadSessionServers of
\* the first render, whose sessionId is the initial one.  When the first
\* effect has changed sessionId the component renders again and the second
\* effect runs again, with the new sessionId.
Mount ==
  /\ ~mounted
  /\ mounted' = TRUE
  /\ LET newSessionId == SessionAt(clock)
         first == Request("servers-list", 0, 0, Undefined, Undefined)
     IN /\ IF HasItem(localStorage, SessionKey)
             THEN sessionId' = localStorage[SessionKey] /\ UNCHANGED localStorage
             ELSE /\ sessionId' = newSessionId
                  /\ localStorage' = setItem(localStorage, SessionKey, newSessionId)
        /\ requests' = IF sessionId' # sessionId
                         THEN requests \o <<first, [first EXCEPT !.session = sessionId']>>
                         ELSE Append(requests, first)
  /\ UNCHANGED <<messages, conversationHistory, isLoading, isProcessingFunctions,
                 showCredentialModal, credentialRequirements, clock, chains, streams,
                 tools, credentials, isSubmitting, errors, submitted, executor>>

\* A handler of the chat runs after the effects of the first render, and
\* leaves the session, the tool invocations and the credential form alone.
ChatOnly ==
  /\ mounted
  /\ UNCHANGED <<sessionId, localStorage, mounted, tools, credentials,
                 isSubmitting, errors, submitted, executor>>

\* sendMessage up to its first await.  The handler belongs to the render in
\* which it is called: it reads that render's input, isLoading,
\* isProcessingFunctions and conversationHistory.
BlockedWhileProcessing(input) == trim(input) = <<>> \/ isProcessingFunctions

\* if (!input.trim() || isLoading || isProcessingFunctions) return;
Blocked(input) == trim(input) = <<>> \/ isLoading \/ isProcessingFunctions

sendMessage(input) ==
  /\ ~Blocked(input)
  /\ messages' = Append(messages, Message(MsgId("user"), input, "user", Undefined))
  /\ isLoading' = TRUE
  /\ conversationHistory' = Append(conversationHistory,
        [role |-> "user", content |-> input, text_content |-> Undefined,
         function_calls |-> Undefined])
  /\ chains' = Append(chains, [kind |-> "send", pc |-> "fetching", depth |-> 0,
                               conversationHistory |-> conversationHistory,
                               input |-> input, server |-> Null, cur |-> 0])
  /\ requests' = Append(requests, Request("message", Len(chains) + 1, 0, Undefined, Undefined))
  /\ UNCHANGED <<isProcessingFunctions, showCredentialModal, credentialRequirements,
                 clock, streams>>

ReturnFromKeepsProcessing(c) ==
  /\ chains' = [chains EXCEPT ![c].pc = "done"]
  /\ isProcessingFunctions' = isProcessingFunctions
  /\ isLoading' = IF chains[c].kind = "send" THEN FALSE ELSE isLoading

\* The handler of chain c returns to its caller, and so on up to the event
\* handler: every processFunctionCallResults on the way runs its finally
\* (setIsProcessingFunctions(false)) and sendMessage runs its own
\* (setIsLoading(false)).  No await on the way up suspends, so this is one step.
ReturnFrom(c) ==
  /\ chains' = [chains EXCEPT ![c].pc = "done"]
  /\ isProcessingFunctions' = IF chains[c].depth > 0 THEN FALSE ELSE isProcessingFunctions
  /\ isLoading' = IF chains[c].kind = "send" THEN FALSE ELSE isLoading

SorryRequest == <<"Sorry, there was an error processing your request.">>
SorryFunctionResults == <<"Sorry, there was an error processing the function results.">>

\* The response of a message or function-results request arrives with a body:
\* processStreamingResponse up to its first reader.read().
FetchResolve(c, body) ==
  /\ c \in 1..Len(chains)
  /\ chains[c].pc = "fetching"
  /\ LET assistantMessage == Message(MsgId("assistant"), <<>>, "assistant", <<>>) IN
     /\ messages' = Append(messages, assistantMessage)
     /\ streams' = Append(streams,
           [chain |-> c, depth |-> chains[c].depth, body |-> body, pos |-> 0,
            pending |-> <<>>, assistantMessage |-> assistantMessage,
            index |-> Len(messages) + 1,
            textContent |-> <<>>, currentFunctionCalls |-> <<>>,
            status |-> "reading"])
     /\ chains' = [chains EXCEPT ![c].pc = "reading", ![c].cur = Len(streams) + 1]
  /\ UNCHANGED <<conversationHistory, isLoading, isProcessingFunctions,
                 showCredentialModal, credentialRequirements, clock, requests>>

\* The fetch rejects, or the response has no body.  sendMessage and
\* processFunctionCallResults throw into their catch; the continuation of
\* handleAddServer only logs.
FetchFails(c) ==
  /\ c \in 1..Len(chains)
  /\ chains[c].pc = "fetching"
  /\ messages' =
       IF chains[c].depth > 0
         THEN Append(messages, Message(MsgId("error"), SorryFunctionResults, "assistant", Undefined))
       ELSE IF chains[c].kind = "send"
         THEN Append(messages, Message(MsgId("error"), SorryRequest, "assistant", Undefined))
       ELSE messages
  /\ ReturnFrom(c)
  /\ UNCHANGED <<conversationHistory, showCredentialModal, credentialRequirements,
                 clock, streams, requests>>

processFunctionCallResultsEach(c, i, functionCalls, textContent) ==
  IF Len(functionCalls) = 0
    THEN ReturnFrom(c) /\ UNCHANGED <<conversationHistory, requests>>
    ELSE
      LET assistantHistoryItem ==
            [role |-> "assistant", content |-> Undefined, text_content |-> textContent,
             function_calls |->
               [k \in 1..Len(functionCalls) |->
                  [id |-> <<functionCalls[k].function_name, clock>>,
                   function_name |-> functionCalls[k].function_name,
                   function_args |-> functionCalls[k].function_args,
                   function_result |-> functionCalls[k].function_result]]]
          updatedHistory == Append(chains[c].conversationHistory, assistantHistoryItem)
          functionResults ==
            [k \in 1..Len(functionCalls) |->
               [id |-> <<functionCalls[k].function_name, clock>>,
                function_name |-> functionCalls[k].function_name,
                function_args |-> functionCalls[k].function_args,
                result |-> functionCalls[k].function_result]]
      IN /\ isProcessingFunctions' = TRUE
         /\ conversationHistory' = updatedHistory
         /\ requests' = requests \o
               [k \in 1..Len(functionCalls) |->
                  Request("function-results", c, i, <<functionResults[k]>>, updatedHistory)]
         /\ chains' = [chains EXCEPT ![c].pc = "fetching", ![c].depth = @ + 1]
         /\ UNCHANGED isLoading

\* processFunctionCallResults up to its await of fetch, called from stream i.
processFunctionCallResults(c, i, functionCalls, textContent) ==
  IF Len(functionCalls) = 0
    THEN ReturnFrom(c) /\ UNCHANGED <<conversationHistory, requests>>
    ELSE
      LET assistantHistoryItem ==
            [role |-> "assistant", content |-> Undefined, text_content |-> textContent,
             function_calls |->
               [k \in 1..Len(functionCalls) |->
                  [id |-> <<functionCalls[k].function_name, clock>>,
                   function_name |-> functionCalls[k].function_name,
                   function_args |-> functionCalls[k].function_args,
                   function_result |-> functionCalls[k].function_result]]]
          updatedHistory == Append(chains[c].conversationHistory, assistantHistoryItem)
          functionResults ==
            [k \in 1..Len(functionCalls) |->
               [id |-> <<functionCalls[k].function_name, clock>>,
                function_name |-> functionCalls[k].function_name,
                function_args |-> functionCalls[k].function_args,
                result |-> functionCalls[k].function_result]]
      IN /\ isProcessingFunctions' = TRUE
         /\ conversationHistory' = updatedHistory
         /\ requests' = Append(requests,
               Request("function-results", c, i, functionResults, updatedHistory))
         /\ chains' = [chains EXCEPT ![c].pc = "fetching", ![c].depth = @ + 1]
         /\ UNCHANGED isLoading

\* reader.read() of stream i delivers the next n bytes of the body: one pass
\* of the while loop, with the sentinel branch when a line of the chunk is
\* the sentinel.
ReadChunk(i, n) ==
  /\ i \in 1..Len(streams)
  /\ streams[i].status = "reading"
  /\ n \in 1..(Len(streams[i].body) - streams[i].pos)
  /\ LET s == streams[i]
         value == SubSeq(s.body, s.pos + 1, s.pos + n)
         decoded == decode(s.pending, value)
         lines == split(decoded.text)
         st == FoldLines([assistantMessage |-> s.assistantMessage,
                          textContent |-> s.textContent,
                          currentFunctionCalls |-> s.currentFunctionCalls,
                          messages |-> messages, done |-> FALSE], lines)
     IN /\ messages' = st.messages
        /\ streams' = [streams EXCEPT ![i] =
              [s EXCEPT !.pos = s.pos + n, !.pending = decoded.pending,
                        !.assistantMessage = st.assistantMessage,
                        !.textContent = st.textContent,
                        !.currentFunctionCalls = st.currentFunctionCalls,
                        !.status = IF st.done THEN "sentinel" ELSE "reading"]]
        /\ IF st.done
             THEN IF shouldProcessFunctionResults(st.currentFunctionCalls)
                     /\ Len(st.currentFunctionCalls) > 0
                    THEN processFunctionCallResults(s.chain, i, st.currentFunctionCalls,
                                                    st.textContent)
                    ELSE ReturnFrom(s.chain) /\ UNCHANGED <<conversationHistory, requests>>
             ELSE UNCHANGED <<conversationHistory, isLoading, isProcessingFunctions,
                              chains, requests>>
  /\ UNCHANGED <<showCredentialModal, credentialRequirements, clock>>

ReadCloseFollowsUp(i) ==
  /\ i \in 1..Len(streams)
  /\ streams[i].status = "reading"
  /\ streams[i].pos = Len(streams[i].body)
  /\ streams' = [streams EXCEPT ![i].status = "closed"]
  /\ IF shouldProcessFunctionResults(streams[i].currentFunctionCalls)
          /\ Len(streams[i].currentFunctionCalls) > 0
       THEN processFunctionCallResults(streams[i].chain, i, streams[i].currentFunctionCalls,
                                       streams[i].textContent)
       ELSE ReturnFrom(streams[i].chain) /\ UNCHANGED <<conversationHistory, requests>>
  /\ UNCHANGED <<messages, showCredentialModal, credentialRequirements, clock>>

\* reader.read() reports done: the loop breaks and the function returns.
ReadClose(i) ==
  /\ i \in 1..Len(streams)
  /\ streams[i].status = "reading"
  /\ streams[i].pos = Len(streams[i].body)
  /\ streams' = [streams EXCEPT ![i].status = "closed"]
  /\ ReturnFrom(streams[i].chain)
  /\ UNCHANGED <<messages, conversationHistory, showCredentialModal,
                 credentialRequirements, clock, requests>>

ReadFailsStalls(i) ==
  /\ i \in 1..Len(streams)
  /\ streams[i].status = "reading"
  /\ streams' = [streams EXCEPT ![i].status = "failed"]
  /\ UNCHANGED <<messages, conversationHistory, isLoading, isProcessingFunctions, chains,
                 showCredentialModal, credentialRequirements, clock, requests>>

\* reader.read() rejects: the catch of processStreamingResponse logs.
ReadFails(i) ==
  /\ i \in 1..Len(streams)
  /\ streams[i].status = "reading"
  /\ streams' = [streams EXCEPT ![i].status = "failed"]
  /\ ReturnFrom(streams[i].chain)
  /\ UNCHANGED <<messages, conversationHistory, showCredentialModal,
                 credentialRequirements, clock, requests>>

\* -------------------------------------------------------- handleAddServer
\* The Add button of a recommendation card: rendered for every function call
\* of a message whose result is of type mcp_recommendations.
AddButtonRendered ==
  \E m \in 1..Len(messages) : \E k \in 1..Len(messages[m].functionCalls) :
    messages[m].functionCalls[k].function_result.type = "mcp_recommendations"

handleAddServer(serverId) ==
  /\ AddButtonRendered
  /\ chains' = Append(chains, [kind |-> "add", pc |-> "requirements", depth |-> 0,
                               conversationHistory |-> conversationHistory,
                               input |-> <<>>, server |-> serverId, cur |-> 0])
  /\ requests' = Append(requests, Request("requirements", Len(chains) + 1, 0, Undefined, Undefined))
  /\ UNCHANGED <<messages, conversationHistory, isLoading, isProcessingFunctions,
                 showCredentialModal, credentialRequirements, clock, streams>>

\* data.credential_requirements of a server that needs credentials.
RequiredFields ==
  <<[name |-> "token", label |-> "Token", required |-> TRUE],
    [name |-> "url", label |-> "URL", required |-> FALSE],
    [name |-> "key", label |-> "Key", required |-> TRUE]>>

RequirementsResolveAddsAnyway(c, required) ==
  /\ c \in 1..Len(chains)
  /\ chains[c].pc = "requirements"
  /\ IF required
       THEN /\ credentialRequirements' = [server_id |-> chains[c].server,
                                          required_fields |-> RequiredFields]
            /\ showCredentialModal' = TRUE
            /\ chains' = [chains EXCEPT ![c].pc = "adding"]
            /\ requests' = Append(requests, Request("servers", c, 0, Undefined, Undefined))
       ELSE /\ requests' = Append(requests, Request("servers", c, 0, Undefined, Undefined))
            /\ chains' = [chains EXCEPT ![c].pc = "adding"]
            /\ UNCHANGED <<credentialRequirements, showCredentialModal>>
  /\ UNCHANGED <<messages, conversationHistory, isLoading, isProcessingFunctions,
                 clock, streams>>

\* The requirements response: a non-empty list opens the credential modal,
\* otherwise the add-server POST goes out.
RequirementsResolve(c, required) ==
  /\ c \in 1..Len(chains)
  /\ chains[c].pc = "requirements"
  /\ IF required
       THEN /\ credentialRequirements' = [server_id |-> chains[c].server,
                                          required_fields |-> RequiredFields]
            /\ showCredentialModal' = TRUE
            /\ chains' = [chains EXCEPT ![c].pc = "done"]
            /\ UNCHANGED requests
       ELSE /\ requests' = Append(requests, Request("servers", c, 0, Undefined, Undefined))
            /\ chains' = [chains EXCEPT ![c].pc = "adding"]
            /\ UNCHANGED <<credentialRequirements, showCredentialModal>>
  /\ UNCHANGED <<messages, conversationHistory, isLoading, isProcessingFunctions,
                 clock, streams>>

\* The add-server response: the continuation request goes out with the
\* conversationHistory of the render the button was clicked in.
AddResolve(c) ==
  /\ c \in 1..Len(chains)
  /\ chains[c].pc = "adding"
  /\ requests' = Append(requests,
       Request("function-results", c, 0,
               <<[id |-> <<"server-added", clock>>,
                  function_name |-> "add_server_to_session",
                  function_result |-> [type |-> "server_added_success",
                                       server_id |-> chains[c].server]]>>,
               chains[c].conversationHistory))
  /\ chains' = [chains EXCEPT ![c].pc = "fetching"]
  /\ UNCHANGED <<messages, conversationHistory, isLoading, isProcessingFunctions,
                 showCredentialModal, credentialRequirements, clock, streams>>

\* A fetch or response.json() of handleAddServer throws before the
\* continuation: the outer catch.
AddFails(c) ==
  /\ c \in 1..Len(chains)
  /\ chains[c].pc \in {"requirements", "adding"}
  /\ chains' = [chains EXCEPT ![c].pc = "done"]
  /\ UNCHANGED <<messages, conversationHistory, isLoading, isProcessingFunctions,
                 showCredentialModal, credentialRequirements, clock, streams, requests>>

\* ------------------------------------------------------ McpCredentialModal
\* The modal is rendered while showCredentialModal is set and
\* credentialRequirements is not null; its state starts afresh each time it
\* is rendered again.
FieldValues == {<<>>, <<" ">>, <<"k">>}
FieldNames == {RequiredFields[k].name : k \in 1..Len(RequiredFields)}

validateFormUntrimmed(required_fields, values) ==
  LET missing == {k \in 1..Len(required_fields) :
                    /\ required_fields[k].required
                    /\ (~HasItem(values, required_fields[k].name)
                        \/ values[required_fields[k].name] = <<>>)}
  IN [name \in {required_fields[k].name : k \in missing} |->
        <<(CHOOSE k \in missing : required_fields[k].name = name), " is required">>]

\* validateForm: newErrors, an entry for every required field whose value is
\* undefined or blank after trim.
validateForm(required_fields, values) ==
  LET missing == {k \in 1..Len(required_fields) :
                    /\ required_fields[k].required
                    /\ (~HasItem(values, required_fields[k].name)
                        \/ trim(values[required_fields[k].name]) = <<>>)}
  IN [name \in {required_fields[k].name : k \in missing} |->
        <<(CHOOSE k \in missing : required_fields[k].name = name), " is required">>]

\* What a step of the modal leaves alone.
ModalOnly ==
  UNCHANGED <<messages, conversationHistory, isLoading, isProcessingFunctions,
              clock, chains, streams, sessionId, localStorage, mounted, tools,
              executor>>

\* The modal is taken off the screen: its state is gone.
Unmounted ==
  /\ credentials' = NoEntries
  /\ errors' = NoEntries
  /\ isSubmitting' = FALSE

\* handleInputChange; the inputs are disabled while isSubmitting.
handleInputChange(fieldName, value) ==
  /\ showCredentialModal /\ ~isSubmitting
  /\ credentials' = setItem(credentials, fieldName, value)
  /\ errors' = IF HasItem(errors, fieldName)
                 THEN [name \in DOMAIN errors \ {fieldName} |-> errors[name]]
                 ELSE errors
  /\ UNCHANGED <<isSubmitting, submitted, requests, showCredentialModal,
                 credentialRequirements>>
  /\ ModalOnly

\* handleSubmit up to its await of fetch; the submit button is disabled while
\* isSubmitting.
handleSubmit ==
  /\ showCredentialModal /\ ~isSubmitting
  /\ LET newErrors == validateForm(credentialRequirements.required_fields, credentials)
     IN /\ errors' = newErrors
        /\ IF DOMAIN newErrors # {}
             THEN UNCHANGED <<isSubmitting, requests>>
             ELSE /\ isSubmitting' = TRUE
                  /\ requests' = Append(requests,
                        [Request("credentials", 0, 0, Undefined, Undefined)
                           EXCEPT !.function_results = credentials])
  /\ UNCHANGED <<credentials, submitted, showCredentialModal, credentialRequirements>>
  /\ ModalOnly

\* handleCredentialsSubmitted, the parent's onCredentialsSubmitted: the modal
\* is closed whatever the outcome.
handleCredentialsSubmitted(success, message, serverId) ==
  /\ submitted' = Append(submitted,
        [success |-> success, message |-> message, serverId |-> serverId])
  /\ showCredentialModal' = FALSE
  /\ credentialRequirements' = Null

SubmitResolveAlwaysSucceeds(success) ==
  /\ isSubmitting
  /\ handleCredentialsSubmitted(TRUE, "message", credentialRequirements.server_id)
  /\ Unmounted
  /\ UNCHANGED requests
  /\ ModalOnly

\* The credentials response arrives and reports success or failure.
SubmitResolve(success) ==
  /\ isSubmitting
  /\ handleCredentialsSubmitted(success, "message", credentialRequirements.server_id)
  /\ Unmounted
  /\ UNCHANGED requests
  /\ ModalOnly

\* fetch or response.json() throws.
SubmitFails ==
  /\ isSubmitting
  /\ handleCredentialsSubmitted(FALSE, "Failed to save credentials. Please try again.",
                                credentialRequirements.server_id)
  /\ Unmounted
  /\ UNCHANGED requests
  /\ ModalOnly

\* onClose from the X or the Cancel button, both disabled while isSubmitting.
onClose ==
  /\ showCredentialModal /\ ~isSubmitting
  /\ showCredentialModal' = FALSE
  /\ Unmounted
  /\ UNCHANGED <<credentialRequirements, submitted, requests>>
  /\ ModalOnly

\* ------------------------------------------------------ handleExecuteTool
\* The texts the tool flow builds, as sequences of pieces; a piece stands for
\* the literal text of the template at that place.
ToolNames == {"u"}

LoadingText(toolName, serverId) == <<"Executing ", toolName, " on ", serverId, "...">>
ToolErrorText(toolName, error) == <<"Error executing ", toolName, ": ", error>>
StreamErrorText(error) == <<"Error processing tool execution results: ", error>>

\* resultMessage + statusMessage + detailsMessage + resultContent
ResultContent(result) ==
  IF result.result = "l"
    THEN <<"**Results** (", "1", " items):", "json", result.result>>
  ELSE IF result.result = "o"
    THEN <<"**Result**:", "json", result.result>>
  ELSE <<>>

RenderResult(result, toolName) ==
  <<"**Tool Execution Result: ", toolName, "**">>
  \o (IF result.success THEN <<"ok **Status**: ", result.message>>
                         ELSE <<"failed **Status**: ", result.message>>)
  \o <<"**Execution Time**: ", result.execution_time, "ms">>
  \o ResultContent(result)

\* The text an analysis adds after a result, and the message of an
\* analysis that arrives before any result.
AnalysisContent(content) == <<"---", "**AI Analysis**:">> \o content
AnalysisAlone(toolName, content) ==
  <<"**AI Analysis of ", toolName, " execution**:">> \o content

\* catch (e) { console.warn(...) } around JSON.parse and the dispatch.
OnToolParseError(acc) == acc

ToolFoldLineFailureAborts(acc, line, toolName) ==
  IF ~startsWith(line, DataPrefix) THEN acc
  ELSE LET data == slice(line, 6) IN
    IF data = DoneSentinel THEN [acc EXCEPT !.done = TRUE]
    ELSE LET parsed == JSONparse(data) IN
      IF ~parsed.ok THEN OnToolParseError(acc)
      ELSE IF parsed.type = "tool_execution_result" THEN
        LET content == RenderResult(parsed.result, toolName)
            message == [acc.toolExecutionMessage EXCEPT !.content = content]
        IN [acc EXCEPT !.toolExecutionMessage = message,
                      !.hasExecutionResult = TRUE,
                      !.done = ~parsed.result.success,
                      !.messages = IF ~acc.hasExecutionResult
                                     THEN Append(acc.messages, message)
                                     ELSE MapContent(acc.messages, message.id, content)]
      ELSE IF parsed.type = "ai_analysis" THEN
        IF acc.hasExecutionResult
          THEN LET content == acc.toolExecutionMessage.content
                                \o AnalysisContent(parsed.content)
               IN [acc EXCEPT !.toolExecutionMessage.content = content,
                             !.hasAiAnalysis = TRUE,
                             !.messages = MapContent(acc.messages,
                                                     acc.toolExecutionMessage.id, content)]
          ELSE [acc EXCEPT !.hasAiAnalysis = TRUE,
                          !.messages = Append(acc.messages,
                             Message(MsgId("ai-analysis"),
                                     AnalysisAlone(toolName, parsed.content),
                                     "assistant", Undefined))]
      ELSE acc

\* One pass of the body of `for (const line of lines)` of
\* processToolExecutionStream.  acc holds its locals and the message list.
ToolFoldLine(acc, line, toolName) ==
  IF ~startsWith(line, DataPrefix) THEN acc
  ELSE LET data == slice(line, 6) IN
    IF data = DoneSentinel THEN [acc EXCEPT !.done = TRUE]
    ELSE LET parsed == JSONparse(data) IN
      IF ~parsed.ok THEN OnToolParseError(acc)
      ELSE IF parsed.type = "tool_execution_result" THEN
        LET content == RenderResult(parsed.result, toolName)
            message == [acc.toolExecutionMessage EXCEPT !.content = content]
        IN [acc EXCEPT !.toolExecutionMessage = message,
                      !.hasExecutionResult = TRUE,
                      !.messages = IF ~acc.hasExecutionResult
                                     THEN Append(acc.messages, message)
                                     ELSE MapContent(acc.messages, message.id, content)]
      ELSE IF parsed.type = "ai_analysis" THEN
        IF acc.hasExecutionResult
          THEN LET content == acc.toolExecutionMessage.content
                                \o AnalysisContent(parsed.content)
               IN [acc EXCEPT !.toolExecutionMessage.content = content,
                             !.hasAiAnalysis = TRUE,
                             !.messages = MapContent(acc.messages,
                                                     acc.toolExecutionMessage.id, content)]
          ELSE [acc EXCEPT !.hasAiAnalysis = TRUE,
                          !.messages = Append(acc.messages,
                             Message(MsgId("ai-analysis"),
                                     AnalysisAlone(toolName, parsed.content),
                                     "assistant", Undefined))]
      ELSE acc

RECURSIVE ToolFoldLines(_, _, _)
ToolFoldLines(acc, rest, toolName) ==
  IF rest = <<>> \/ acc.done THEN acc
  ELSE ToolFoldLines(ToolFoldLine(acc, Head(rest), toolName), Tail(rest), toolName)

\* The tool buttons of an available-tools card.
ToolButtonRendered ==
  \E m \in 1..Len(messages) : \E k \in 1..Len(messages[m].functionCalls) :
    messages[m].functionCalls[k].function_result.type = "available_tools"

\* What a tool step leaves alone.
ToolOnly ==
  /\ mounted
  /\ UNCHANGED <<conversationHistory, isLoading, isProcessingFunctions,
                 showCredentialModal, credentialRequirements, clock, chains, streams,
                 sessionId, localStorage, mounted, credentials, isSubmitting, errors,
                 submitted, executor>>

\* handleExecuteTool up to its await of fetch.
handleExecuteTool(serverId, toolName) ==
  /\ ToolButtonRendered
  /\ LET loadingMessage == Message(MsgId("tool-loading"), LoadingText(toolName, serverId),
                                   "assistant", Undefined)
     IN /\ messages' = Append(messages, loadingMessage)
        /\ tools' = Append(tools,
              [serverId |-> serverId, toolName |-> toolName, status |-> "fetching",
               loadingMessage |-> loadingMessage, body |-> <<>>, pos |-> 0,
               pending |-> <<>>,
               toolExecutionMessage |-> Message(Undefined, <<>>, "assistant", Undefined),
               hasExecutionResult |-> FALSE, hasAiAnalysis |-> FALSE])
  /\ requests' = Append(requests, Request("tools", 0, 0, Undefined, Undefined))
  /\ ToolOnly

\* The response arrives with a body: the loading message is filtered out and
\* processToolExecutionStream runs up to its first reader.read().
ToolFetchResolve(t, body) ==
  /\ t \in 1..Len(tools)
  /\ tools[t].status = "fetching"
  /\ messages' = SelectSeq(messages, LAMBDA msg : msg.id # tools[t].loadingMessage.id)
  /\ tools' = [tools EXCEPT ![t].status = "reading", ![t].body = body,
                            ![t].toolExecutionMessage =
                               Message(MsgId("tool-result"), <<>>, "assistant", Undefined)]
  /\ UNCHANGED requests
  /\ ToolOnly

\* The fetch rejects, or the response has no body: the catch of
\* handleExecuteTool appends the error message.
ToolFetchFails(t) ==
  /\ t \in 1..Len(tools)
  /\ tools[t].status = "fetching"
  /\ messages' = Append(messages,
        Message(MsgId("tool-error"), ToolErrorText(tools[t].toolName, "error"),
                "assistant", Undefined))
  /\ tools' = [tools EXCEPT ![t].status = "rejected"]
  /\ UNCHANGED requests
  /\ ToolOnly

\* reader.read() of tool stream t delivers the next n bytes.
ToolReadChunk(t, n) ==
  /\ t \in 1..Len(tools)
  /\ tools[t].status = "reading"
  /\ n \in 1..(Len(tools[t].body) - tools[t].pos)
  /\ LET s == tools[t]
         value == SubSeq(s.body, s.pos + 1, s.pos + n)
         decoded == decode(s.pending, value)
         lines == split(decoded.text)
         st == ToolFoldLines([toolExecutionMessage |-> s.toolExecutionMessage,
                              hasExecutionResult |-> s.hasExecutionResult,
                              hasAiAnalysis |-> s.hasAiAnalysis,
                              messages |-> messages, done |-> FALSE], lines, s.toolName)
     IN /\ messages' = st.messages
        /\ tools' = [tools EXCEPT ![t] =
              [s EXCEPT !.pos = s.pos + n, !.pending = decoded.pending,
                        !.toolExecutionMessage = st.toolExecutionMessage,
                        !.hasExecutionResult = st.hasExecutionResult,
                        !.hasAiAnalysis = st.hasAiAnalysis,
                        !.status = IF st.done THEN "sentinel" ELSE "reading"]]
  /\ UNCHANGED requests
  /\ ToolOnly

\* reader.read() reports done: the loop breaks.
ToolReadClose(t) ==
  /\ t \in 1..Len(tools)
  /\ tools[t].status = "reading"
  /\ tools[t].pos = Len(tools[t].body)
  /\ tools' = [tools EXCEPT ![t].status = "closed"]
  /\ UNCHANGED <<messages, requests>>
  /\ ToolOnly

\* reader.read() rejects: the catch of processToolExecutionStream appends the
\* stream-error message.
ToolReadFails(t) ==
  /\ t \in 1..Len(tools)
  /\ tools[t].status = "reading"
  /\ messages' = Append(messages,
        Message(MsgId("stream-error"), StreamErrorText("error"), "assistant", Undefined))
  /\ tools' = [tools EXCEPT ![t].status = "failed"]
  /\ UNCHANGED requests
  /\ ToolOnly

\* ------------------------------------------------------- McpToolExecutor
\* decoder.decode(value), without the stream option: nothing is kept back for
\* the next call, and a lead byte at the very end decodes to U+FFFD.
decodeChunk(input) ==
  LET n == Len(input)
  IN SelectSeq([k \in 1..n |-> IF k = n /\ input[k] \in LeadBytes THEN "FFFD"
                                ELSE DecodeAt(input, k)],
               LAMBDA ch : ch # Skip)

\* {...object, [key]: value}
spread(object, key, value) ==
  [k \in DOMAIN object \cup {key} |-> IF k = key THEN value ELSE object[k]]

NoResultReceived == [success |-> FALSE, error |-> <<"No tool execution result received">>]
FailedToExecute(message) ==
  [success |-> FALSE, error |-> <<"Failed to execute tool: ", message>>]

\* A step of the executor leaves the chat and the credential form alone.
ExecutorOnly ==
  UNCHANGED <<messages, conversationHistory, isLoading, isProcessingFunctions,
              showCredentialModal, credentialRequirements, clock, chains, streams,
              requests, sessionId, localStorage, mounted, tools, credentials,
              isSubmitting, errors, submitted>>

\* loadConfiguredServers resolves with the configured servers: the first one
\* is selected.
loadConfiguredServers(serverId) ==
  /\ ~executor.loaded
  /\ executor' = [executor EXCEPT !.loaded = TRUE, !.selectedServer = serverId]
  /\ ExecutorOnly

\* onChange of the server select.
selectServer(serverId) ==
  /\ executor.loaded
  /\ executor' = [executor EXCEPT !.selectedServer = serverId, !.selectedTool = "",
                                  !.executionResult = NullResult]
  /\ ExecutorOnly

\* onChange of the tool select, rendered once a server is selected; the
\* empty value is the option "Choose a tool...".
selectTool(toolName) ==
  /\ executor.loaded
  /\ executor.selectedServer # ""
  /\ executor' = [executor EXCEPT !.selectedTool = toolName,
                                  !.executionResult = NullResult]
  /\ ExecutorOnly

\* executeTool up to its await of fetch.  The Execute button is rendered
\* while a tool is selected and is disabled while isExecuting.
executeTool ==
  /\ executor.selectedTool # ""
  /\ ~executor.isExecuting
  /\ executor.selectedServer # "" /\ executor.selectedTool # ""
  /\ executor' = [executor EXCEPT
        !.isExecuting = TRUE,
        !.executionResult = NullResult,
        !.calls = @ + 1,
        !.call = [status |-> "fetching", selectedServer |-> executor.selectedServer,
                  selectedTool |-> executor.selectedTool, body |-> <<>>, pos |-> 0,
                  toolExecutionResult |-> NullResult, aiAnalysis |-> <<>>,
                  hasError |-> FALSE]]
  /\ ExecutorOnly

\* The response is ok and has a body: the loop reaches its first reader.read().
ExecutorFetchResolve(body) ==
  /\ executor.call.status = "fetching"
  /\ executor' = [executor EXCEPT !.call.status = "reading", !.call.body = body]
  /\ ExecutorOnly

\* The end of executeTool after the loop: the result that was kept, with the
\* analysis text, or the failure result; then the finally block.
ExecutorSettled(call, status) ==
  [executor EXCEPT
     !.isExecuting = FALSE,
     !.executionResult =
        IF call.toolExecutionResult # NullResult
          THEN spread(call.toolExecutionResult, "ai_analysis",
                      IF call.aiAnalysis = <<>> THEN Undefined ELSE call.aiAnalysis)
          ELSE NoResultReceived,
     !.call = [call EXCEPT !.status = status]]

\* The response is ok and has no body: there is no reader and no loop.
ExecutorFetchResolveNoBody ==
  /\ executor.call.status = "fetching"
  /\ executor' = ExecutorSettled(executor.call, "closed")
  /\ ExecutorOnly

\* The catch and the finally of executeTool.
ExecutorCaught(status) ==
  [executor EXCEPT !.isExecuting = FALSE,
                   !.executionResult = FailedToExecute("error"),
                   !.call.status = status]

\* fetch rejects, or the response is not ok.
ExecutorFetchFails ==
  /\ executor.call.status = "fetching"
  /\ executor' = ExecutorCaught("rejected")
  /\ ExecutorOnly

\* One line of a chunk.  The sentinel is skipped, and the lines after it are
\* still read.
ExecutorFoldLine(acc, line) ==
  IF ~startsWith(line, DataPrefix) THEN acc
  ELSE LET data == slice(line, 6) IN
    IF data = DoneSentinel THEN acc
    ELSE LET parsed == JSONparse(data) IN
      IF ~parsed.ok THEN acc
      ELSE IF parsed.type = "tool_execution_result"
        THEN [acc EXCEPT !.toolExecutionResult = parsed.result]
      ELSE IF parsed.type = "error"
        THEN [acc EXCEPT !.hasError = TRUE,
                         !.toolExecutionResult =
                            [success |-> FALSE, error |-> parsed.error,
                             tool_name |-> parsed.tool_name,
                             server_id |-> parsed.server_id]]
      ELSE IF parsed.type = "ai_analysis"
        THEN [acc EXCEPT !.aiAnalysis = @ \o parsed.content]
      ELSE acc

RECURSIVE ExecutorFoldLines(_, _)
ExecutorFoldLines(acc, rest) ==
  IF rest = <<>> THEN acc
  ELSE ExecutorFoldLines(ExecutorFoldLine(acc, Head(rest)), Tail(rest))

\* reader.read() delivers the next n bytes of the body.
ExecutorReadChunk(n) ==
  /\ executor.call.status = "reading"
  /\ n \in 1..(Len(executor.call.body) - executor.call.pos)
  /\ LET call == executor.call
         value == SubSeq(call.body, call.pos + 1, call.pos + n)
         chunk == decodeChunk(value)
         lines == split(chunk)
     IN executor' = [executor EXCEPT
           !.call = [ExecutorFoldLines(call, lines) EXCEPT !.pos = call.pos + n]]
  /\ ExecutorOnly

\* reader.read() reports done: the loop breaks.
ExecutorReadClose ==
  /\ executor.call.status = "reading"
  /\ executor.call.pos = Len(executor.call.body)
  /\ executor' = ExecutorSettled(executor.call, "closed")
  /\ ExecutorOnly

\* reader.read() rejects: the lock is released and the catch of executeTool
\* runs.
ExecutorReadFails ==
  /\ executor.call.status = "reading"
  /\ executor' = ExecutorCaught("failed")
  /\ ExecutorOnly

\* ------------------------------------------------------ the backend's bodies
PlainFrames == <<Text(<<"E9">>), Text(<<"B">>), Call("g", "n"), Done>>
RecommendFrames == <<Call("g", "r"), Done>>
MixedFrames == <<Call("g", "r"), Call("h", "n"), Done>>
ActionFrames == <<Call("g", "a"), Call("h", "n"), Done>>
FinalFrames == <<Text(<<"A">>), Call("g", "z"), Done>>
NoisyFrames == <<Text(<<"A">>), Bad, Comment, Status, Text(<<"B">>), Done, Text(<<"A">>)>>
OpenFrames == <<Text(<<"A">>)>>
CardFrames == <<Call("g", "r"), Text(<<"A">>), Done>>
CallFrames == <<Text(<<"B">>), Call("h", "n"), Done>>
TextFrames == <<Text(<<"A">>), Text(<<"B">>), Done>>

PlainBody == Body(PlainFrames)
RecommendBody == Body(RecommendFrames)
MixedBody == Body(MixedFrames)
ActionBody == Body(ActionFrames)
FinalBody == Body(FinalFrames)
NoisyBody == Body(NoisyFrames)
OpenBody == Body(OpenFrames)
CardBody == Body(CardFrames)
CallBody == Body(CallFrames)
TextBody == Body(TextFrames)

\* A body that ends without the sentinel after a function call.
OpenCallFrames == <<Text(<<"A">>), Call("h", "n")>>
OpenCallBody == Body(OpenCallFrames)

ToolsFrames == <<Call("g", "v"), Done>>
ToolsBody == Body(ToolsFrames)

\* The bodies of a tool-invocation response.
ResultAnalysisFrames == <<ToolResult("1", "l"), Analysis(<<"A">>), Done>>
AnalysisResultFrames == <<Analysis(<<"A">>), ToolResult("1", "o"), Done>>
FailureAnalysisFrames == <<ToolResult("0", "_"), Analysis(<<"A">>), Analysis(<<"B">>), Done>>
TwoResultsFrames == <<ToolResult("1", "o"), Analysis(<<"A">>), ToolResult("0", "_"),
                      Analysis(<<"B">>)>>

ResultAnalysisBody == Body(ResultAnalysisFrames)
AnalysisResultBody == Body(AnalysisResultFrames)
FailureAnalysisBody == Body(FailureAnalysisFrames)
TwoResultsBody == Body(TwoResultsFrames)

ToolBodies == {ResultAnalysisBody, AnalysisResultBody, FailureAnalysisBody, TwoResultsBody}

\* The bodies of a response to the executor's request.
ErrorFrames == <<Analysis(<<"A">>), ErrorFrame("x"), Done>>
ResultErrorFrames == <<ToolResult("1", "o"), ErrorFrame("x")>>
AnalysisFrames == <<Analysis(<<"E9">>), Done>>

ExecutorBodies == {ResultAnalysisBody, Body(ErrorFrames), Body(ResultErrorFrames),
                   Body(AnalysisFrames)}

\* What the backend may answer: to the requests of the interleaved handlers,
\* and to the single turn whose body arrives in chunks of every length.
ServerBodies == {CardBody, CallBody, OpenBody}
WireBodies == {PlainBody, RecommendBody, MixedBody, ActionBody, FinalBody,
               NoisyBody, OpenBody}

\* The answer to the follow-up of the last level triggers no further one.
LastBodies == {TextBody}

Offered(bodies, c) == IF chains[c].depth < MaxDepth THEN bodies ELSE LastBodies

Count(kind) == Cardinality({c \in 1..Len(chains) : chains[c].kind = kind})

\* The rest of the body in one chunk.
WholeCuts(i) == {n \in 1..(Len(streams[i].body) - streams[i].pos) :
                   streams[i].pos + n = Len(streams[i].body)}

\* Chunk lengths that end on a line terminator, and all chunk lengths.
LineCuts(i) ==
  {n \in 1..(Len(streams[i].body) - streams[i].pos) :
     streams[i].body[streams[i].pos + n] = NL}
AnyCuts(i) == 1..(Len(streams[i].body) - streams[i].pos)
AnyToolCuts(t) == 1..(Len(tools[t].body) - tools[t].pos)

\* The handlers of the component, interleaved; chunks end with a line.
Next ==
  \/ Tick /\ UNCHANGED <<sessionId, localStorage, mounted, tools, credentials,
                          isSubmitting, errors, submitted, executor>>
  \/ Mount
  \/ \E input \in Inputs : Count("send") < MaxSends /\ sendMessage(input) /\ ChatOnly
  \/ \E c \in 1..Len(chains) : \E body \in Offered(ServerBodies, c) :
        FetchResolve(c, body) /\ ChatOnly
  \/ \E c \in 1..Len(chains) : FetchFails(c) /\ ChatOnly
  \/ \E i \in 1..Len(streams) : \E n \in LineCuts(i) : ReadChunk(i, n) /\ ChatOnly
  \/ \E i \in 1..Len(streams) : ReadClose(i) /\ ChatOnly
  \/ \E i \in 1..Len(streams) : ReadFails(i) /\ ChatOnly
  \/ \E serverId \in Servers : Count("add") < MaxAdds /\ handleAddServer(serverId) /\ ChatOnly
  \/ \E c \in 1..Len(chains) : \E required \in BOOLEAN :
        RequirementsResolve(c, required) /\ ChatOnly
  \/ \E c \in 1..Len(chains) : AddResolve(c) /\ ChatOnly
  \/ \E c \in 1..Len(chains) : AddFails(c) /\ ChatOnly

Spec == Init /\ [][Next]_vars

\* One turn of sendMessage; the bytes of its body arrive in chunks of every
\* length.  The follow-up request, once issued, stays unanswered or fails.
NextWire ==
  \/ Mount
  \/ \E input \in Inputs : Count("send") < 1 /\ sendMessage(input) /\ ChatOnly
  \/ \E c \in 1..Len(chains) : \E body \in WireBodies :
        chains[c].depth = 0 /\ FetchResolve(c, body) /\ ChatOnly
  \/ \E c \in 1..Len(chains) : FetchFails(c) /\ ChatOnly
  \/ \E i \in 1..Len(streams) : \E n \in AnyCuts(i) : ReadChunk(i, n) /\ ChatOnly
  \/ \E i \in 1..Len(streams) : ReadClose(i) /\ ChatOnly

SpecWire == Init /\ [][NextWire]_vars

\* Several turns of sendMessage, each with its follow-up chain; every body
\* arrives in one chunk.
MaxTurns == 2
TurnBodies == {CardBody, CallBody, OpenCallBody}

NextTurns ==
  \/ Mount
  \/ \E input \in Inputs : Count("send") < MaxTurns /\ sendMessage(input) /\ ChatOnly
  \/ \E c \in 1..Len(chains) : \E body \in Offered(TurnBodies, c) :
        FetchResolve(c, body) /\ ChatOnly
  \/ \E c \in 1..Len(chains) : FetchFails(c) /\ ChatOnly
  \/ \E i \in 1..Len(streams) : \E n \in WholeCuts(i) : ReadChunk(i, n) /\ ChatOnly
  \/ \E i \in 1..Len(streams) : ReadClose(i) /\ ChatOnly
  \/ \E i \in 1..Len(streams) : ReadFails(i) /\ ChatOnly

SpecTurns == Init /\ [][NextTurns]_vars

\* The same turns when every fetch settles and every stream that is being
\* read is read on until it ends.
Settles(c) ==
  /\ c \in 1..Len(chains)
  /\ \/ \E body \in Offered(TurnBodies, c) : FetchResolve(c, body) /\ ChatOnly
     \/ FetchFails(c) /\ ChatOnly
ReadsOn(i) ==
  /\ i \in 1..Len(streams)
  /\ \/ ReadFails(i) /\ ChatOnly
     \/ ReadClose(i) /\ ChatOnly
     \/ \E n \in WholeCuts(i) : ReadChunk(i, n) /\ ChatOnly

\* sendMessage is blocked while a turn is in flight, so at most one fetch or
\* stream is pending at a time and one fairness condition covers them all.
Proceeds ==
  \/ \E c \in 1..Len(chains) : Settles(c)
  \/ \E i \in 1..Len(streams) : ReadsOn(i)

SpecTurnsFair == Init /\ [][NextTurns]_vars /\ WF_vars(Proceeds)

\* Turns of sendMessage while time passes; every body arrives in one chunk,
\* with or without the sentinel, and the follow-up request stays unanswered
\* or fails.
StallBodies == {CallBody, OpenCallBody}

NextStall ==
  \/ Tick /\ UNCHANGED <<sessionId, localStorage, mounted, tools, credentials,
                          isSubmitting, errors, submitted, executor>>
  \/ Mount
  \/ \E input \in Inputs : Count("send") < MaxTurns /\ sendMessage(input) /\ ChatOnly
  \/ \E c \in 1..Len(chains) : \E body \in StallBodies :
        chains[c].depth = 0 /\ FetchResolve(c, body) /\ ChatOnly
  \/ \E c \in 1..Len(chains) : FetchFails(c) /\ ChatOnly
  \/ \E i \in 1..Len(streams) : \E n \in WholeCuts(i) : ReadChunk(i, n) /\ ChatOnly
  \/ \E i \in 1..Len(streams) : ReadClose(i) /\ ChatOnly
  \/ \E i \in 1..Len(streams) : ReadFails(i) /\ ChatOnly

SpecStall == Init /\ [][NextStall]_vars

\* A turn that shows a recommendation card and the Add button of the card,
\* clicked while or after the turn runs; the requirements endpoint answers
\* with or without credential requirements.
NextAdd ==
  \/ Mount
  \/ \E input \in Inputs : Count("send") < 1 /\ sendMessage(input) /\ ChatOnly
  \/ \E c \in 1..Len(chains) :
        \E body \in (IF chains[c].kind = "send" THEN {RecommendBody} ELSE LastBodies) :
          FetchResolve(c, body) /\ ChatOnly
  \/ \E c \in 1..Len(chains) : FetchFails(c) /\ ChatOnly
  \/ \E i \in 1..Len(streams) : \E n \in WholeCuts(i) : ReadChunk(i, n) /\ ChatOnly
  \/ \E serverId \in Servers : Count("add") < MaxAdds + 1 /\ handleAddServer(serverId) /\ ChatOnly
  \/ \E c \in 1..Len(chains) : \E required \in BOOLEAN :
        RequirementsResolve(c, required) /\ ChatOnly
  \/ \E c \in 1..Len(chains) : AddResolve(c) /\ ChatOnly
  \/ \E c \in 1..Len(chains) : AddFails(c) /\ ChatOnly

SpecAdd == Init /\ [][NextAdd]_vars

\* A turn that shows the available-tools card, and one tool invocation
\* started from the card; the bytes of the tool response arrive in chunks of
\* every length.  The follow-up request of the turn stays unanswered.
NextTool ==
  \/ Mount
  \/ \E input \in Inputs : Count("send") < 1 /\ sendMessage(input) /\ ChatOnly
  \/ \E c \in 1..Len(chains) : chains[c].depth = 0 /\ FetchResolve(c, ToolsBody) /\ ChatOnly
  \/ \E i \in 1..Len(streams) : \E n \in WholeCuts(i) : ReadChunk(i, n) /\ ChatOnly
  \/ \E serverId \in Servers : \E toolName \in ToolNames :
        Len(tools) < 1 /\ handleExecuteTool(serverId, toolName)
  \/ \E t \in 1..Len(tools) : \E body \in ToolBodies : ToolFetchResolve(t, body)
  \/ \E t \in 1..Len(tools) : ToolFetchFails(t)
  \/ \E t \in 1..Len(tools) : \E n \in AnyToolCuts(t) : ToolReadChunk(t, n)
  \/ \E t \in 1..Len(tools) : ToolReadClose(t)
  \/ \E t \in 1..Len(tools) : ToolReadFails(t)

SpecTool == Init /\ [][NextTool]_vars

\* A turn that shows a recommendation card, the Add button of the card, and
\* the credential form it opens.  The form covers the card while it is open.
NextModal ==
  \/ Mount
  \/ \E input \in Inputs : Count("send") < 1 /\ sendMessage(input) /\ ChatOnly
  \/ \E c \in 1..Len(chains) : FetchResolve(c, RecommendBody) /\ ChatOnly
  \/ \E i \in 1..Len(streams) : \E n \in WholeCuts(i) : ReadChunk(i, n) /\ ChatOnly
  \/ \E serverId \in Servers :
        Count("add") < MaxAdds /\ ~showCredentialModal /\ handleAddServer(serverId) /\ ChatOnly
  \/ \E c \in 1..Len(chains) : RequirementsResolve(c, TRUE) /\ ChatOnly
  \/ \E fieldName \in FieldNames : \E value \in FieldValues :
        handleInputChange(fieldName, value)
  \/ handleSubmit
  \/ \E success \in BOOLEAN : SubmitResolve(success)
  \/ SubmitFails
  \/ onClose

SpecModal == Init /\ [][NextModal]_vars

\* The tool executor: servers and tools are selected and the Execute button
\* is clicked; the bytes of the response arrive in chunks of every length.
MaxCalls == 2
AnyExecutorCuts ==
  IF executor.call.status = "reading"
    THEN 1..(Len(executor.call.body) - executor.call.pos) ELSE {}

NextExecutor ==
  \/ \E serverId \in Servers : loadConfiguredServers(serverId)
  \/ \E serverId \in Servers : selectServer(serverId)
  \/ \E toolName \in ToolNames \cup {""} : selectTool(toolName)
  \/ executor.calls < MaxCalls /\ executeTool
  \/ \E body \in ExecutorBodies : ExecutorFetchResolve(body)
  \/ ExecutorFetchResolveNoBody
  \/ ExecutorFetchFails
  \/ \E n \in AnyExecutorCuts : ExecutorReadChunk(n)
  \/ ExecutorReadClose
  \/ ExecutorReadFails

SpecExecutor == Init /\ [][NextExecutor]_vars

\* ================================================================ claims
FrameLists == {PlainFrames, RecommendFrames, MixedFrames, ActionFrames, FinalFrames,
               NoisyFrames, OpenFrames, CardFrames, CallFrames, TextFrames}
FramesOf(body) == CHOOSE frames \in FrameLists : Body(frames) = body
WellFormed(frames) == \A k \in 1..Len(frames) : frames[k].kind # "bad"

\* A function call that continues the conversation by itself.
Continues(fc) ==
  /\ fc.function_result.type # "mcp_recommendations"
  /\ ~fc.function_result.requires_user_action
  /\ ~fc.function_result.is_final

FollowUps(i) ==
  {r \in 1..Len(requests) :
     requests[r].endpoint = "function-results" /\ requests[r].from = i}

\* The reducer applied to a body that arrives as a single chunk.
WholeBody(body) ==
  FoldLines([assistantMessage |-> Message(<<"msg", 0, "assistant">>, <<>>, "assistant", <<>>),
             textContent |-> <<>>, currentFunctionCalls |-> <<>>,
             messages |-> <<>>, done |-> FALSE],
            split(decode(<<>>, body).text))

\* C1: for a well-formed sequence of event lines, a stream that has met the
\* sentinel or has read the body to its end leaves the same message content,
\* the same functionCalls and the same follow-up decision as the delivery of
\* the body in one chunk, wherever the chunks were cut.
C1_SameForEveryChunking ==
  \A i \in 1..Len(streams) :
    (/\ WellFormed(FramesOf(streams[i].body))
     /\ streams[i].status \in {"sentinel", "closed"})
    => LET whole == WholeBody(streams[i].body) IN
         /\ messages[streams[i].index].content = whole.assistantMessage.content
         /\ messages[streams[i].index].functionCalls = whole.assistantMessage.functionCalls
         /\ (FollowUps(i) # {}) <=>
              (whole.done /\ \E k \in 1..Len(whole.currentFunctionCalls) :
                               Continues(whole.currentFunctionCalls[k]))

\* The contents of the text frames that precede the sentinel, concatenated.
RECURSIVE TextBefore(_)
TextBefore(frames) ==
  IF frames = <<>> THEN <<>>
  ELSE IF Head(frames).kind = "done" THEN <<>>
  ELSE (IF Head(frames).kind = "text" THEN Head(frames).content ELSE <<>>)
       \o TextBefore(Tail(frames))

\* C2: when a stream has reached the sentinel, the content of its message is
\* the concatenation, in arrival order, of the content of every text frame
\* the backend sent before the sentinel.
C2_ContentIsConcatenation ==
  \A i \in 1..Len(streams) :
    streams[i].status = "sentinel"
    => messages[streams[i].index].content = TextBefore(FramesOf(streams[i].body))

\* C3: a stream that has met the sentinel with at least one function call
\* that continues the conversation has issued exactly one follow-up request,
\* and the request carries the result of every such call.
C3_OneFollowUp ==
  \A i \in 1..Len(streams) :
    LET calls == streams[i].currentFunctionCalls IN
    (streams[i].status = "sentinel" /\ \E k \in 1..Len(calls) : Continues(calls[k]))
    => /\ Cardinality(FollowUps(i)) = 1
       /\ \A r \in FollowUps(i) : \A k \in 1..Len(calls) :
            Continues(calls[k]) =>
              \E j \in 1..Len(requests[r].function_results) :
                /\ requests[r].function_results[j].function_name = calls[k].function_name
                /\ requests[r].function_results[j].result = calls[k].function_result

C3_Witness ==
  \E i \in 1..Len(streams) :
    /\ streams[i].status = "sentinel"
    /\ \E k \in 1..Len(streams[i].currentFunctionCalls) :
         Continues(streams[i].currentFunctionCalls[k])
    /\ FollowUps(i) # {}

OnlyRecommendations(calls) ==
  \A k \in 1..Len(calls) : calls[k].function_result.type = "mcp_recommendations"

\* C4: a stream that has met the sentinel with every accumulated function
\* call of type mcp_recommendations has issued no follow-up request and has
\* not set isProcessingFunctions.
C4_RecommendationsWait ==
  \A i \in 1..Len(streams) :
    (streams[i].status = "sentinel" /\ OnlyRecommendations(streams[i].currentFunctionCalls))
    => FollowUps(i) = {} /\ ~isProcessingFunctions

C4_Witness ==
  \E i \in 1..Len(streams) :
    /\ streams[i].status = "sentinel"
    /\ Len(streams[i].currentFunctionCalls) > 0
    /\ OnlyRecommendations(streams[i].currentFunctionCalls)

\* C5: a stream that has met the sentinel and has accumulated a function call
\* whose result is of type mcp_recommendations or requires user action has
\* issued no follow-up request, whatever else it accumulated.
C5_PausesForTheUser ==
  \A i \in 1..Len(streams) :
    LET calls == streams[i].currentFunctionCalls IN
    (/\ streams[i].status = "sentinel"
     /\ \E k \in 1..Len(calls) :
          \/ calls[k].function_result.type = "mcp_recommendations"
          \/ calls[k].function_result.requires_user_action)
    => FollowUps(i) = {}

\* The lines of the chunk of n bytes that stream i reads next, the reducer's
\* locals before it, and what the step that reads it leaves behind.
LinesRead(i, n) ==
  split(decode(streams[i].pending,
               SubSeq(streams[i].body, streams[i].pos + 1, streams[i].pos + n)).text)
Before(i) ==
  [assistantMessage |-> streams[i].assistantMessage,
   textContent |-> streams[i].textContent,
   currentFunctionCalls |-> streams[i].currentFunctionCalls,
   messages |-> messages, done |-> FALSE]
Reads(i, n) ==
  streams[i].status = "reading" /\ streams'[i].pos = streams[i].pos + n
Leaves(i, acc) ==
  /\ messages' = acc.messages
  /\ streams'[i].assistantMessage = acc.assistantMessage
  /\ streams'[i].textContent = acc.textContent
  /\ streams'[i].currentFunctionCalls = acc.currentFunctionCalls
  /\ (streams'[i].status = "sentinel") = acc.done

Unparseable(line) ==
  /\ startsWith(line, DataPrefix)
  /\ slice(line, 6) # DoneSentinel
  /\ ~JSONparse(slice(line, 6)).ok

\* C6: a chunk leaves the message, the accumulated text and function calls
\* and the stream exactly as the same chunk without its data lines that fail
\* JSON parsing would: such a line changes nothing and the lines after it are
\* still folded.
C6_MalformedLineSkipped ==
  [][\A i \in 1..Len(streams) : \A n \in AnyCuts(i) :
       Reads(i, n) =>
         Leaves(i, FoldLines(Before(i),
                             SelectSeq(LinesRead(i, n), LAMBDA line : ~Unparseable(line))))]_vars

C6_Witness ==
  \E i \in 1..Len(streams) :
    /\ streams[i].body = NoisyBody
    /\ streams[i].status = "sentinel"
    /\ messages[streams[i].index].content = <<"A", "B">>

\* C7: every chunk a stream folds leaves the content of its message an
\* extension of the previous content and the functionCalls of its message an
\* extension of the previous functionCalls.
C7_MessageOnlyGrows ==
  [][\A i \in 1..Len(streams) : \A n \in AnyCuts(i) :
       Reads(i, n) =>
         /\ IsPrefix(messages[streams[i].index].content,
                     messages'[streams[i].index].content)
         /\ IsPrefix(messages[streams[i].index].functionCalls,
                     messages'[streams[i].index].functionCalls)]_vars

\* The lines of a chunk up to and including the first sentinel line.
UpToSentinel(lines) ==
  LET at == SelectSeq([k \in 1..Len(lines) |-> k],
                      LAMBDA k : lines[k] = DataPrefix \o DoneSentinel)
  IN IF at = <<>> THEN lines ELSE SubSeq(lines, 1, at[1])

\* C8: the chunk in which a stream meets the sentinel is folded only up to
\* the sentinel line, and from then on the stream reads no chunk, changes none
\* of its locals and leaves its message as it is.
C8_TerminalAfterSentinel ==
  [][\A i \in 1..Len(streams) :
       /\ \A n \in AnyCuts(i) :
            (Reads(i, n) /\ streams'[i].status = "sentinel") =>
              Leaves(i, FoldLinesPastSentinel(Before(i), UpToSentinel(LinesRead(i, n))))
       /\ streams[i].status = "sentinel" =>
            /\ streams'[i] = streams[i]
            /\ messages'[streams[i].index] = messages[streams[i].index]]_vars

C8_Witness ==
  \E i \in 1..Len(streams) :
    /\ streams[i].body = NoisyBody
    /\ streams[i].status = "sentinel"
    /\ streams[i].pos = Len(streams[i].body)

\* C9: every automatic follow-up request carries one function_results entry
\* per function call of the finished stream, in order, and a
\* conversation_history that holds the user entry of the turn and ends with
\* the new assistant entry.
C9_FollowUpCarriesHistory ==
  \A r \in 1..Len(requests) :
    (requests[r].endpoint = "function-results" /\ requests[r].from > 0) =>
      LET calls == streams[requests[r].from].currentFunctionCalls
          results == requests[r].function_results
          history == requests[r].conversation_history
          chain == chains[requests[r].chain]
      IN /\ Len(results) = Len(calls)
         /\ \A k \in 1..Len(calls) : results[k].result = calls[k].function_result
         /\ Len(history) > 0
         /\ history[Len(history)].role = "assistant"
         /\ history[Len(history)].text_content = streams[requests[r].from].textContent
         /\ chain.kind = "send" =>
              \E h \in 1..Len(history) :
                history[h].role = "user" /\ history[h].content = chain.input

\* C10: every step leaves the previous conversationHistory a prefix of the
\* new one.
C10_HistoryAppendOnly ==
  [][IsPrefix(conversationHistory, conversationHistory')]_vars

\* A turn of sendMessage that has not returned: its request, its stream or a
\* request or stream of its follow-up chain is in flight.
InFlight(c) == chains[c].kind = "send" /\ chains[c].pc # "done"
UserMessages(msgs) == Cardinality({k \in 1..Len(msgs) : msgs[k].sender = "user"})
EndsWithUser(history) == Len(history) > 0 /\ history[Len(history)].role = "user"
MessageRequests(reqs) == Cardinality({r \in 1..Len(reqs) : reqs[r].endpoint = "message"})

\* C11: while a turn of sendMessage is in flight isLoading is true, and no
\* step appends a user message, leaves the conversation history changed and
\* ending with a user entry, or issues a send-message request.
C11_SendBlocked ==
  [][(\E c \in 1..Len(chains) : InFlight(c)) =>
       /\ isLoading
       /\ UserMessages(messages') = UserMessages(messages)
       /\ ~(conversationHistory' # conversationHistory /\ EndsWithUser(conversationHistory'))
       /\ MessageRequests(requests') = MessageRequests(requests)]_vars

\* A second turn is in its follow-up chain, after the first has returned.
C11_Witness ==
  \E c, d \in 1..Len(chains) :
    /\ c # d
    /\ chains[d].kind = "send" /\ chains[d].pc = "done"
    /\ InFlight(c) /\ chains[c].depth > 0

\* The stream readers being read: of chat streams and of tool streams.
Readers ==
  Cardinality({i \in 1..Len(streams) : streams[i].status = "reading"})
  + Cardinality({t \in 1..Len(tools) : tools[t].status = "reading"})

\* C12: in every state at most one stream reader is being read.
C12_OneReader == Readers <= 1

\* The step in which the request chain c waits for fails to open its stream.
OpenFails(c) == chains[c].pc = "fetching" /\ chains'[c].pc = "done"
RequestsOf(reqs, c) == SelectSeq(reqs, LAMBDA r : r.chain = c)

\* C13: the step in which the send-message request or a function-results
\* follow-up of a turn fails to open appends exactly one assistant message,
\* the error text of that request, issues no request, and leaves isLoading
\* false and, for a follow-up, isProcessingFunctions false; a chain that has
\* returned issues no further request.
C13_OpenFailureReported ==
  [][\A c \in 1..Len(chains) :
       /\ (chains[c].kind = "send" /\ OpenFails(c)) =>
            /\ \E m \in {SorryRequest, SorryFunctionResults} :
                 /\ messages' = Append(messages,
                                       Message(MsgId("error"), m, "assistant", Undefined))
                 /\ (m = SorryFunctionResults) = (chains[c].depth > 0)
            /\ requests' = requests
            /\ ~isLoading'
            /\ chains[c].depth > 0 => ~isProcessingFunctions'
       /\ chains[c].pc = "done" => RequestsOf(requests', c) = RequestsOf(requests, c)]_vars

C13_Witness ==
  /\ \E m \in 1..Len(messages) : messages[m].content = SorryFunctionResults
  /\ \E m \in 1..Len(messages) : messages[m].content = SorryRequest
  /\ ~isLoading /\ ~isProcessingFunctions

\* The required fields of the open form whose value is missing, empty or
\* made of white space only.
IsBlankText(values, name) ==
  ~HasItem(values, name) \/ \A k \in 1..Len(values[name]) : values[name][k] \in WhiteSpace
BlankRequired ==
  {credentialRequirements.required_fields[k].name :
     k \in {j \in 1..Len(credentialRequirements.required_fields) :
              /\ credentialRequirements.required_fields[j].required
              /\ IsBlankText(credentials, credentialRequirements.required_fields[j].name)}}
CredentialRequests(reqs) == SelectSeq(reqs, LAMBDA r : r.endpoint = "credentials")

\* C14: while the form is open with a required field blank, no step issues a
\* credentials request, calls onCredentialsSubmitted or sets isSubmitting,
\* and handleSubmit sets errors to an entry for exactly the blank required
\* fields.
C14_BlankRequiredNotSubmitted ==
  [][(showCredentialModal /\ ~isSubmitting /\ BlankRequired # {}) =>
       /\ CredentialRequests(requests') = CredentialRequests(requests)
       /\ submitted' = submitted
       /\ ~isSubmitting'
       /\ handleSubmit => DOMAIN errors' = BlankRequired]_vars

C14_Witness ==
  /\ showCredentialModal
  /\ DOMAIN errors = {"token"}
  /\ HasItem(credentials, "token") /\ credentials["token"] = <<" ">>
  /\ HasItem(credentials, "key") /\ credentials["key"] = <<"k">>
  /\ CredentialRequests(requests) = <<>>

\* The display messages a tool-invocation stream has put in the list.
ToolStreamMessages(msgs) ==
  SelectSeq(msgs, LAMBDA msg : msg.id[3] \in {"tool-result", "ai-analysis", "stream-error"})

\* C15: once a tool-invocation stream of one tool_execution_result frame and
\* then one ai_analysis frame has been read to its sentinel, the list holds
\* exactly one message of that stream, and its content is the rendered result
\* followed by the analysis text.
C15_ResultThenAnalysisOneMessage ==
  \A t \in 1..Len(tools) :
    (tools[t].body = ResultAnalysisBody /\ tools[t].status = "sentinel") =>
      /\ Len(ToolStreamMessages(messages)) = 1
      /\ ToolStreamMessages(messages)[1].content =
           RenderResult(ToolResultOf("1", "l"), tools[t].toolName)
             \o AnalysisContent(<<"A">>)

\* C16: every request sent carries the session identifier that local storage
\* holds under mcp-chat-session-id.
C16_RequestsCarryStoredSession ==
  \A k \in 1..Len(requests) :
    /\ HasItem(localStorage, SessionKey)
    /\ requests[k].session = localStorage[SessionKey]

\* The display messages that hold folded frames of a tool-invocation stream.
FoldedMessages(msgs) ==
  SelectSeq(msgs, LAMBDA msg : msg.id[3] \in {"tool-result", "ai-analysis"})

\* C17: whatever the order and number of tool_execution_result and
\* ai_analysis frames, the frames of a tool-invocation stream are folded into
\* one display message, and no step makes its content anything but an
\* extension of what it was.
C17_OneGrowingMessage ==
  [][/\ Len(FoldedMessages(messages')) <= 1
     /\ \A k \in 1..Len(FoldedMessages(messages)) :
          /\ k <= Len(FoldedMessages(messages'))
          /\ IsPrefix(FoldedMessages(messages)[k].content,
                      FoldedMessages(messages')[k].content)]_vars

\* Stream i ends before the sentinel in this step: the reader reports done,
\* or a read fails.
StreamEnds(i) ==
  /\ streams[i].status = "reading"
  /\ streams'[i].status \in {"closed", "failed"}
RequestsFrom(reqs, i) == SelectSeq(reqs, LAMBDA r : r.from = i)

\* C18: the step in which a chat stream ends before the sentinel leaves the
\* message list as it is and sends nothing, its handler returns, and no later
\* step sends a request on behalf of that stream.
C18_PartialStateKept ==
  [][\A i \in 1..Len(streams) :
       /\ StreamEnds(i) =>
            /\ messages' = messages
            /\ requests' = requests
            /\ chains'[streams[i].chain].pc = "done"
       /\ streams[i].status \in {"closed", "failed"} =>
            RequestsFrom(requests', i) = RequestsFrom(requests, i)]_vars

C18_Witness ==
  \E i \in 1..Len(streams) :
    /\ streams[i].status = "closed"
    /\ Len(streams[i].currentFunctionCalls) > 0
    /\ shouldProcessFunctionResults(streams[i].currentFunctionCalls)
    /\ messages[streams[i].index].functionCalls = streams[i].currentFunctionCalls
    /\ RequestsFrom(requests, i) = <<>>
    /\ chains[streams[i].chain].pc = "done"

\* C19 as stated: a turn of sendMessage whose stream has not delivered the
\* sentinel has not completed, and isLoading is still true.
C19_NoSentinelNoCompletion ==
  \A i \in 1..Len(streams) :
    (chains[streams[i].chain].kind = "send" /\ streams[i].status # "sentinel") =>
      /\ chains[streams[i].chain].pc # "done"
      /\ isLoading

\* C19, amended: a turn of sendMessage does not complete while its stream is
\* still being read, however much time passes: a step that leaves the stream
\* neither at the sentinel nor ended leaves the turn running, isLoading true
\* and sendMessage blocked.
C19_ReadingTurnStaysLoading ==
  [][\A i \in 1..Len(streams) :
       (/\ chains[streams[i].chain].kind = "send"
        /\ streams[i].status = "reading"
        /\ streams'[i].status = "reading") =>
         /\ chains'[streams[i].chain].pc # "done"
         /\ isLoading'
         /\ MessageRequests(requests') = MessageRequests(requests)]_vars

C19_Witness ==
  \E i \in 1..Len(streams) :
    /\ chains[streams[i].chain].kind = "send"
    /\ streams[i].status = "reading"
    /\ clock > streams[i].assistantMessage.id[2]
    /\ isLoading
    /\ \A input \in Inputs : Blocked(input)

\* The records of the function_call frames sent before the sentinel.
RECURSIVE CallsBefore(_)
CallsBefore(frames) ==
  IF frames = <<>> THEN <<>>
  ELSE IF Head(frames).kind = "done" THEN <<>>
  ELSE (IF Head(frames).kind = "function_call"
          THEN <<[type |-> "function_call", function_name |-> Head(frames).name,
                  function_args |-> "x", function_result |-> ResultOf(Head(frames).tag)]>>
          ELSE <<>>)
       \o CallsBefore(Tail(frames))

\* C20: when a stream has reached the sentinel, the functionCalls of its
\* message are the records of the function_call frames the backend sent
\* before the sentinel, one for each frame, in arrival order.
C20_FunctionCallsAreTheFrames ==
  \A i \in 1..Len(streams) :
    streams[i].status = "sentinel"
    => /\ streams[i].currentFunctionCalls = CallsBefore(FramesOf(streams[i].body))
       /\ messages[streams[i].index].functionCalls = CallsBefore(FramesOf(streams[i].body))

\* A line the reducer has no branch for: one without the data prefix, or a
\* data line whose JSON parses to a type other than text and function_call.
Ignored(line) ==
  \/ ~startsWith(line, DataPrefix)
  \/ /\ slice(line, 6) # DoneSentinel
     /\ JSONparse(slice(line, 6)).ok
     /\ JSONparse(slice(line, 6)).type \notin {"text", "function_call"}

\* C21: a chunk leaves the message list, the accumulated text, the
\* accumulated function calls and the stream exactly as the same chunk
\* without its lines that lack the data prefix or carry another type would:
\* such a line changes nothing and the lines after it are still folded.
C21_OtherLinesIgnored ==
  [][\A i \in 1..Len(streams) : \A n \in AnyCuts(i) :
       Reads(i, n) =>
         Leaves(i, FoldLines(Before(i),
                             SelectSeq(LinesRead(i, n), LAMBDA line : ~Ignored(line))))]_vars

C21_Witness ==
  \E i \in 1..Len(streams) :
    /\ streams[i].body = NoisyBody
    /\ streams[i].status = "sentinel"
    /\ streams[i].textContent = <<"A", "B">>
    /\ streams[i].currentFunctionCalls = <<>>
    /\ Len(messages) = streams[i].index

\* The lines of the chunk of n bytes that tool stream t reads next, and
\* those of them that come before the sentinel.
ToolLinesRead(t, n) ==
  split(decode(tools[t].pending,
               SubSeq(tools[t].body, tools[t].pos + 1, tools[t].pos + n)).text)
ToolReads(t, n) ==
  tools[t].status = "reading" /\ tools'[t].pos = tools[t].pos + n
IsSentinelLine(line) == startsWith(line, DataPrefix) /\ slice(line, 6) = DoneSentinel
BeforeSentinel(lines) ==
  LET at == {k \in 1..Len(lines) : IsSentinelLine(lines[k])}
  IN IF at = {} THEN lines
     ELSE SubSeq(lines, 1, (CHOOSE k \in at : \A j \in at : k <= j) - 1)
TypeOfLine(line) ==
  IF startsWith(line, DataPrefix) /\ JSONparse(slice(line, 6)).ok
    THEN JSONparse(slice(line, 6)).type ELSE "none"
IsResultLine(line) == TypeOfLine(line) = "tool_execution_result"
IsFailureLine(line) ==
  IsResultLine(line) /\ ~JSONparse(slice(line, 6)).result.success

\* The text the ai_analysis lines after position k add, in order.
RECURSIVE AnalysesAfter(_, _)
AnalysesAfter(lines, k) ==
  IF k >= Len(lines) THEN <<>>
  ELSE (IF TypeOfLine(lines[k + 1]) = "ai_analysis"
          THEN AnalysisContent(JSONparse(slice(lines[k + 1], 6)).content) ELSE <<>>)
       \o AnalysesAfter(lines, k + 1)

FailureShown(t) ==
  /\ tools[t].hasExecutionResult
  /\ tools[t].toolExecutionMessage.content[4] = "failed **Status**: "

\* C22: a tool_execution_result line that reports a failure is rendered as a
\* failure and the stream goes on: the ai_analysis lines that follow it, in
\* the same chunk and in the chunks after it, are appended to the content of
\* the message, and the stream ends only at the sentinel.
C22_FailureDoesNotAbort ==
  [][\A t \in 1..Len(tools) : \A n \in AnyToolCuts(t) :
       ToolReads(t, n) =>
         LET lines == ToolLinesRead(t, n)
             live == BeforeSentinel(lines)
             shown == tools'[t].toolExecutionMessage
         IN /\ \A k \in 1..Len(live) :
                 (IsFailureLine(live[k])
                    /\ \A j \in (k + 1)..Len(live) : ~IsResultLine(live[j])) =>
                   /\ shown.content =
                        RenderResult(JSONparse(slice(live[k], 6)).result, tools[t].toolName)
                          \o AnalysesAfter(live, k)
                   /\ shown.content[4] = "failed **Status**: "
                   /\ \E m \in 1..Len(messages') : messages'[m] = shown
                   /\ tools'[t].status = IF Len(live) < Len(lines) THEN "sentinel" ELSE "reading"
            /\ (FailureShown(t) /\ \A j \in 1..Len(live) : ~IsResultLine(live[j])) =>
                   /\ shown.content =
                        tools[t].toolExecutionMessage.content \o AnalysesAfter(live, 0)
                   /\ \E m \in 1..Len(messages') : messages'[m] = shown
                   /\ tools'[t].status = IF Len(live) < Len(lines) THEN "sentinel" ELSE "reading"]_vars

C22_Witness ==
  \E t \in 1..Len(tools) : \E m \in 1..Len(messages) :
    /\ tools[t].body = FailureAnalysisBody
    /\ tools[t].status = "sentinel"
    /\ messages[m].content =
         RenderResult(ToolResultOf("0", "_"), tools[t].toolName)
           \o AnalysisContent(<<"A">>) \o AnalysisContent(<<"B">>)

\* C23: a stream has issued at most one follow-up request; a stream that met
\* the sentinel with no function call accumulated has issued none; the
\* request a stream issued carries one entry for each accumulated function
\* call, in order.
C23_AtMostOneFollowUp ==
  \A i \in 1..Len(streams) :
    LET calls == streams[i].currentFunctionCalls IN
    /\ Cardinality(FollowUps(i)) <= 1
    /\ (streams[i].status = "sentinel" /\ calls = <<>>) => FollowUps(i) = {}
    /\ \A r \in FollowUps(i) :
         /\ Len(requests[r].function_results) = Len(calls)
         /\ \A k \in 1..Len(calls) :
              /\ requests[r].function_results[k].function_name = calls[k].function_name
              /\ requests[r].function_results[k].function_args = calls[k].function_args
              /\ requests[r].function_results[k].result = calls[k].function_result

C23_Witness ==
  \E i \in 1..Len(streams) :
    /\ streams[i].status = "sentinel"
    /\ Len(streams[i].currentFunctionCalls) = 2
    /\ Cardinality(FollowUps(i)) = 1
    /\ \E r \in FollowUps(i) : Len(requests[r].function_results) = 2

C25_ProcessingWhileFollowUp ==
  \A c \in 1..Len(chains) :
    (/\ chains[c].pc \in {"fetching", "reading"}
     /\ (chains[c].depth > 0 \/ chains[c].kind = "add"))
      => isProcessingFunctions

\* C26: a chunk folded by a stream changes no message of the list but the
\* one that stream created.
C26_OnlyOwnMessageChanges ==
  [][\A i \in 1..Len(streams) : \A n \in AnyCuts(i) :
       Reads(i, n) =>
         \A m \in 1..Len(messages) :
           m # streams[i].index =>
             /\ messages'[m].content = messages[m].content
             /\ messages'[m].functionCalls = messages[m].functionCalls]_vars

\* C27: once a call of handleExecuteTool has finished, whichever way, the
\* list holds no message with the id of the loading message the call created.
C27_NoLoadingMessageLeft ==
  \A t \in 1..Len(tools) :
    tools[t].status \in {"sentinel", "closed", "failed", "rejected"} =>
      \A m \in 1..Len(messages) : messages[m].id # tools[t].loadingMessage.id

\* The requests of chain c to an endpoint.
RequestsTo(reqs, c, endpoint) ==
  SelectSeq(reqs, LAMBDA r : r.chain = c /\ r.endpoint = endpoint)

\* C28: when the requirements endpoint returns credential requirements,
\* handleAddServer opens the credential form for its server, sends nothing
\* then and nothing afterwards; the add-server POST goes out only when the
\* endpoint returned none, and the one continuation request only after that
\* POST has returned.
C28_CredentialsBeforeAdding ==
  [][/\ (~showCredentialModal /\ showCredentialModal') =>
          /\ requests' = requests
          /\ \E c \in 1..Len(chains) :
               /\ chains[c].kind = "add"
               /\ chains[c].pc = "requirements"
               /\ chains'[c].pc = "done"
               /\ credentialRequirements'.server_id = chains[c].server
     /\ \A c \in 1..Len(chains) :
          chains[c].kind = "add" =>
            /\ chains[c].pc = "done" => RequestsOf(requests', c) = RequestsOf(requests, c)
            /\ RequestsTo(requests', c, "servers") # RequestsTo(requests, c, "servers") =>
                 /\ chains[c].pc = "requirements"
                 /\ showCredentialModal' = showCredentialModal
                 /\ Len(RequestsTo(requests', c, "servers")) = 1
            /\ RequestsTo(requests', c, "function-results")
                  # RequestsTo(requests, c, "function-results") =>
                 /\ chains[c].pc = "adding"
                 /\ Len(RequestsTo(requests, c, "servers")) = 1
                 /\ Len(RequestsTo(requests', c, "function-results")) = 1]_vars

C28_Witness ==
  \E c, d \in 1..Len(chains) :
    /\ chains[c].kind = "add" /\ chains[d].kind = "add"
    /\ chains[c].pc = "done"
    /\ showCredentialModal
    /\ credentialRequirements.server_id = chains[c].server
    /\ RequestsTo(requests, c, "servers") = <<>>
    /\ RequestsTo(requests, c, "function-results") = <<>>
    /\ Len(RequestsTo(requests, d, "servers")) = 1
    /\ Len(RequestsTo(requests, d, "function-results")) = 1

\* C29: the step in which a submission passes validation sends exactly one
\* credentials POST; the step in which it finishes calls
\* onCredentialsSubmitted exactly once and leaves isSubmitting false; no other
\* step sends a credentials POST or calls onCredentialsSubmitted; the call
\* reports success only when the response did.
C29_OnePostOneCallback ==
  [][/\ (~isSubmitting /\ isSubmitting') =>
          /\ Len(CredentialRequests(requests')) = Len(CredentialRequests(requests)) + 1
          /\ Len(requests') = Len(requests) + 1
          /\ submitted' = submitted
     /\ (isSubmitting /\ ~isSubmitting') =>
          /\ Len(submitted') = Len(submitted) + 1
          /\ SubSeq(submitted', 1, Len(submitted)) = submitted
          /\ requests' = requests
     /\ (isSubmitting' = isSubmitting) =>
          /\ CredentialRequests(requests') = CredentialRequests(requests)
          /\ submitted' = submitted
     /\ (SubmitResolve(FALSE) \/ SubmitFails) => ~submitted'[Len(submitted')].success
     /\ SubmitResolve(TRUE) => submitted'[Len(submitted')].success]_vars

C29_Witness ==
  /\ Len(submitted) = 1
  /\ submitted[1].success
  /\ ~isSubmitting
  /\ Len(CredentialRequests(requests)) = 1
  /\ ~showCredentialModal

\* The frames of an executor body, and the result the executor shows for a
\* tool_execution_result or error frame.
ExecutorFrameLists == {<<>>, ResultAnalysisFrames, ErrorFrames, ResultErrorFrames,
                       AnalysisFrames}
ExecutorFramesOf(body) == CHOOSE frames \in ExecutorFrameLists : Body(frames) = body
ResultFrames(frames) ==
  SelectSeq(frames, LAMBDA frame : frame.kind \in {"tool_execution_result", "error"})
ResultFor(frame) ==
  IF frame.kind = "tool_execution_result" THEN ToolResultOf(frame.flag, frame.payload)
  ELSE [success |-> FALSE, error |-> <<frame.error>>,
        tool_name |-> "u", server_id |-> "srv"]
ShowsResult(shown, result) ==
  /\ DOMAIN result \subseteq DOMAIN shown
  /\ \A field \in DOMAIN result : shown[field] = result[field]
IsFailureResult(shown) ==
  /\ shown # NullResult
  /\ DOMAIN shown = {"success", "error"}
  /\ ~shown.success
CallRuns(state) == state.call.status \in {"fetching", "reading"}
CallEnded(state) == state.call.status \in {"closed", "failed", "rejected"}

\* C30: every executeTool call made with a server and a tool selected ends
\* with isExecuting = false and a non-null executionResult: the result of the
\* last tool_execution_result or error frame that the stream delivered, or a
\* failure result when the stream delivered neither or the request failed.
C30_CallEndsWithResult ==
  [][(CallRuns(executor) /\ CallEnded(executor'))
       => /\ ~executor'.isExecuting
          /\ executor'.executionResult # NullResult
          /\ LET call == executor'.call
                 received == ResultFrames(ExecutorFramesOf(call.body))
             IN IF call.status = "closed" /\ received # <<>>
                  THEN ShowsResult(executor'.executionResult,
                                   ResultFor(received[Len(received)]))
                  ELSE IsFailureResult(executor'.executionResult)]_vars

====
